---- MODULE Spec2Model ----
(***************************************************************************)
(* A model of the "My maps" catalog of maps4fsui                           *)
(* (src/maps4fsui/generator/my_maps.py): directory scan, descriptor load,  *)
(* filter and search, pagination, display names, archive and delete.       *)
(*                                                                         *)
(* Text is modelled as a sequence of one-character strings, so that the    *)
(* pattern match, str.lower, str.strip, str.replace and the ordering used  *)
(* by sorted() are computed and not assumed.                               *)
(***************************************************************************)
EXTENDS Integers, Sequences, FiniteSets, TLC

VARIABLES
    MFS_DATA_DIR,   \* mfscfg.MFS_DATA_DIR, the root directory (text)
    dirs,           \* subdirectories of the root: name -> directory record
    files,          \* regular files (archives, custom_osm.osm): path -> content
    clock,          \* source of fresh content versions of entry directories
    session,        \* st.session_state (current_page, total_pages when set)
    ui,             \* the MyMapsUI object of the latest script run and what it rendered
    obj,            \* a MapEntry object kept by the page (rename callback target)
    last,           \* the latest operation and what it returned
    hist,           \* per entry name, what happened to it last (history of the run)
    requests        \* requests served at the same time: request -> where its handler is

vars == <<MFS_DATA_DIR, dirs, files, clock, session, ui, obj, last, hist, requests>>

----------------------------------------------------------------------------
(* Text.                                                                   *)

Digits == {"0", "1", "2", "3", "4", "5", "6", "7", "8", "9"}

\* The code point order of the characters the model uses (str comparison).
Ord(c) ==
    CASE c = " " -> 32
      [] c = "." -> 46
      [] c = "/" -> 47
      [] c = "0" -> 48
      [] c = "1" -> 49
      [] c = "2" -> 50
      [] c = "3" -> 51
      [] c = "4" -> 52
      [] c = "5" -> 53
      [] c = "6" -> 54
      [] c = "7" -> 55
      [] c = "8" -> 56
      [] c = "9" -> 57
      [] c = "A" -> 65
      [] c = "B" -> 66
      [] c = "F" -> 70
      [] c = "S" -> 83
      [] c = "_" -> 95
      [] c = "a" -> 97
      [] c = "b" -> 98
      [] c = "d" -> 100
      [] c = "f" -> 102
      [] c = "i" -> 105
      [] c = "p" -> 112
      [] c = "s" -> 115
      [] c = "x" -> 120
      [] c = "z" -> 122

\* str.lower on one character.
LowerChar(c) ==
    CASE c = "A" -> "a"
      [] c = "B" -> "b"
      [] c = "F" -> "f"
      [] c = "S" -> "s"
      [] OTHER -> c

\* str.lower
Lower(s) == [i \in 1..Len(s) |-> LowerChar(s[i])]

\* a < b for str: the first differing character decides, a proper prefix is smaller.
RECURSIVE StrLess(_, _)
StrLess(a, b) ==
    IF b = <<>> THEN FALSE
    ELSE IF a = <<>> THEN TRUE
    ELSE IF Head(a) = Head(b) THEN StrLess(Tail(a), Tail(b))
    ELSE Ord(Head(a)) < Ord(Head(b))

\* s[i:] starts with p
StartsWithAt(s, i, p) ==
    /\ i + Len(p) - 1 <= Len(s)
    /\ \A k \in 1..Len(p) : s[i + k - 1] = p[k]

\* needle in hay (str containment)
Contains(hay, needle) ==
    \E i \in 1..(Len(hay) + 1) : StartsWithAt(hay, i, needle)

\* The number of digits s holds from position i on (the greedy \d+).
RECURSIVE DigitRun(_, _)
DigitRun(s, i) ==
    IF i <= Len(s) /\ s[i] \in Digits THEN 1 + DigitRun(s, i + 1) ELSE 0

\* str.replace(old, "") : every non-overlapping occurrence, left to right.
RECURSIVE RemoveAll(_, _)
RemoveAll(s, old) ==
    IF s = <<>> THEN <<>>
    ELSE IF StartsWithAt(s, 1, old)
         THEN RemoveAll(SubSeq(s, Len(old) + 1, Len(s)), old)
         ELSE <<Head(s)>> \o RemoveAll(Tail(s), old)

\* str.strip() : leading and trailing whitespace removed.
RECURSIVE LStrip(_)
LStrip(s) == IF s # <<>> /\ Head(s) = " " THEN LStrip(Tail(s)) ELSE s

RECURSIVE RStrip(_)
RStrip(s) ==
    IF s # <<>> /\ s[Len(s)] = " " THEN RStrip(SubSeq(s, 1, Len(s) - 1)) ELSE s

Strip(s) == RStrip(LStrip(s))

\* os.path.join(a, b) for a relative b
PathJoin(a, b) == a \o <<"/">> \o b

ZipSuffix == <<".", "z", "i", "p">>

----------------------------------------------------------------------------
(* Constants of the program.                                               *)

PAGE_SIZE == 5

COMPLETE == "Complete"
INCOMPLETE == "Incomplete"
ERROR == "Error"
API == "API"

\* re.match(DIR_PATTERN, entry) for DIR_PATTERN = ^(\d+_\d+)_fs
DirPatternMatches(entry) ==
    LET d1 == DigitRun(entry, 1)
        d2 == DigitRun(entry, d1 + 2)
    IN  /\ d1 >= 1
        /\ d1 + 1 <= Len(entry) /\ entry[d1 + 1] = "_"
        /\ d2 >= 1
        /\ StartsWithAt(entry, d1 + d2 + 2, <<"_", "f", "s">>)

----------------------------------------------------------------------------
(* The file system.                                                        *)

\* os.path.isdir(os.path.join(directory, entry)) for the root directory
IsDir(ds, entry) == entry \in DOMAIN ds

\* os.path.isfile(path)
IsFile(fl, path) == path \in DOMAIN fl

\* The names os.listdir(root) holds: the subdirectories and the regular files.
RootNames(root, ds, fl) ==
    DOMAIN ds \cup
    {n \in {SubSeq(p, Len(root) + 2, Len(p)) : p \in DOMAIN fl} :
        PathJoin(root, n) \in DOMAIN fl /\ ~Contains(n, <<"/">>)}

\* Every order os.listdir may enumerate a set of names in.
ListDirOrders(S) ==
    {f \in [1..Cardinality(S) -> S] : \A i, j \in 1..Cardinality(S) : i # j => f[i] # f[j]}

\* sorted(matches, reverse=True): one element put in its place.
RECURSIVE InsertDesc(_, _)
InsertDesc(sorted, e) ==
    IF sorted = <<>> THEN <<e>>
    ELSE IF StrLess(Head(sorted), e) THEN <<e>> \o sorted
    ELSE <<Head(sorted)>> \o InsertDesc(Tail(sorted), e)

\* The matches left in the order the listing gave them.
matches_as_listed(matches) == matches

RECURSIVE SortedReverse(_)
SortedReverse(matches) ==
    IF matches = <<>> THEN <<>>
    ELSE InsertDesc(SortedReverse(SubSeq(matches, 1, Len(matches) - 1)),
                    matches[Len(matches)])

RECURSIVE KeepMatches(_, _, _)
KeepMatches(listing, ds, use_pattern) ==
    IF listing = <<>> THEN <<>>
    ELSE LET entry == Head(listing)
             rest == KeepMatches(Tail(listing), ds, use_pattern)
         IN  IF IsDir(ds, entry) /\ (~use_pattern \/ DirPatternMatches(entry))
             THEN <<entry>> \o rest
             ELSE rest

\* A scan that returns the matching directories in the order of the listing.
find_map_directories_unsorted(listing, ds, use_pattern) ==
    KeepMatches(listing, ds, use_pattern)

\* MyMapsUI.find_map_directories, given what os.listdir returned.
find_map_directories(listing, ds, use_pattern) ==
    SortedReverse(KeepMatches(listing, ds, use_pattern))

----------------------------------------------------------------------------
(* Entry directories and their descriptor files.                           *)

\* What open() and json.load() make of a descriptor file, and what
\* MainSettings.from_json / GenerationSettings.from_json make of its data.
DescMissing == "missing"          \* os.path.isfile is false
DescUnreadable == "unreadable"    \* open() raises OSError (PermissionError)
DescUndecodable == "undecodable"  \* the bytes are no text: UnicodeDecodeError
DescMalformed == "malformed"      \* text that is no JSON: json.JSONDecodeError
DescRejected == "rejected"        \* JSON that from_json raises on
DescOk == "ok"

DescStates ==
    {DescMissing, DescUnreadable, DescUndecodable, DescMalformed, DescRejected, DescOk}

\* The fields of MainSettings the catalog reads.
MainSettingsOf(completed, error, api_request, custom_osm) ==
    [completed |-> completed, error |-> error, api_request |-> api_request,
     custom_osm |-> custom_osm,
     date |-> <<"d">>, time |-> <<"1">>, latitude |-> <<"4">>, longitude |-> <<"2">>]

PlainSettings == MainSettingsOf(TRUE, FALSE, FALSE, FALSE)

\* An entry directory: the state of its two descriptor files, the main settings
\* main_settings.json holds, name.txt (<<>> when there is none, <<text>> otherwise)
\* and the version of its contents.
DirOf(main, gen, ms, name_txt, ver) ==
    [main |-> main, gen |-> gen, ms |-> ms, name_txt |-> name_txt, ver |-> ver]

PlainDir == DirOf(DescOk, DescOk, PlainSettings, <<>>, 0)

NoSession == <<>>

\* No script run yet.
NoUI ==
    [opened |-> FALSE, public |-> FALSE, filter |-> <<>>, search_input |-> <<>>,
     constructed |-> FALSE,
     total_pages |-> 0, page |-> 0, shown |-> <<>>, filtered |-> <<>>,
     raised |-> "none", warning |-> FALSE, nav |-> FALSE]

NoObj == [loaded |-> FALSE]

NoOp == [op |-> "none"]

DataDir == <<"/", "d">>

----------------------------------------------------------------------------
(* Directory scan: find_map_directories over root directories that hold    *)
(* entry directories, other directories and plain files such as archives.  *)

MaxRootEntries == 4

ScanNames ==
    { <<"1", "_", "2", "_", "f", "s">>,
      <<"1", "_", "2", "_", "f", "s", ".", "z", "i", "p">>,
      <<"1", "2", "_", "3", "_", "f", "s", "2", "5", "x">>,
      <<"3", "_", "1", "_", "f", "s", "_", "b">>,
      <<"1", "_", "2", "f", "s">>,
      <<"a", "1", "_", "2", "_", "f", "s">>,
      <<"1", "_", "_", "f", "s">>,
      <<"2", "_", "1", "_", "F", "S">>,
      <<"2", "_", "1", "_", "f">> }

\* The root directories of the scan: each name absent, a directory or a plain file.
ScanRoots ==
    {r \in [ScanNames -> {"absent", "dir", "file"}] :
        Cardinality({n \in ScanNames : r[n] # "absent"}) <= MaxRootEntries}

InitScan ==
    /\ MFS_DATA_DIR = DataDir
    /\ requests = <<>>
    /\ \E r \in ScanRoots :
        /\ dirs = [n \in {m \in ScanNames : r[m] = "dir"} |-> PlainDir]
        /\ files = [p \in {PathJoin(DataDir, m) : m \in {k \in ScanNames : r[k] = "file"}}
                        |-> "bytes"]
    /\ clock = 0
    /\ session = NoSession
    /\ ui = NoUI
    /\ obj = NoObj
    /\ last = NoOp
    /\ hist = <<>>

\* One call of find_map_directories(), os.listdir enumerating in any order.
Scan ==
    /\ \E listing \in ListDirOrders(RootNames(MFS_DATA_DIR, dirs, files)) :
        last' = [op |-> "find_map_directories",
                 ret |-> find_map_directories(listing, dirs, TRUE)]
    /\ UNCHANGED <<requests, MFS_DATA_DIR, dirs, files, clock, session, ui, obj, hist>>

NextScan == Scan

SpecScan == InitScan /\ [][NextScan]_vars

\* The naming pattern, stated on its own: digits, underscore, digits, "_fs", anything.
NamedLikeAnEntry(n) ==
    \E i \in 1..Len(n) : \E j \in 1..Len(n) :
        /\ i + j + 4 <= Len(n)
        /\ \A k \in 1..i : n[k] \in Digits
        /\ n[i + 1] = "_"
        /\ \A k \in (i + 2)..(i + j + 1) : n[k] \in Digits
        /\ n[i + j + 2] = "_" /\ n[i + j + 3] = "f" /\ n[i + j + 4] = "s"

\* Lexicographic order by code point, stated on its own.
LexLess(a, b) ==
    \E k \in 1..(Len(b)) :
        /\ k <= Len(a) + 1
        /\ \A m \in 1..(k - 1) : a[m] = b[m]
        /\ (k = Len(a) + 1 \/ Ord(a[k]) < Ord(b[k]))

\* C2: find_map_directories returns exactly the immediate subdirectories named
\* digits_digits_fs..., never a plain file, in strictly descending order.
C2_ScanExactAndDescending ==
    last.op = "find_map_directories" =>
        /\ {last.ret[i] : i \in 1..Len(last.ret)} =
               {n \in DOMAIN dirs : NamedLikeAnEntry(n)}
        /\ \A i \in 1..Len(last.ret) : PathJoin(MFS_DATA_DIR, last.ret[i]) \notin DOMAIN files
        /\ \A i \in 1..(Len(last.ret) - 1) : LexLess(last.ret[i + 1], last.ret[i])

\* A scan of a root that holds an archive file beside entry directories and a
\* directory that is no entry.
C2_Witness ==
    /\ last.op = "find_map_directories"
    /\ Len(last.ret) >= 2
    /\ PathJoin(MFS_DATA_DIR, <<"1", "_", "2", "_", "f", "s", ".", "z", "i", "p">>)
           \in DOMAIN files
    /\ \E n \in DOMAIN dirs : ~NamedLikeAnEntry(n)

----------------------------------------------------------------------------
(* MapEntry: filter and search.                                            *)

\* A MapEntry object after __init__.
MapEntryOf(directory_name, main_settings, name, page) ==
    [loaded |-> TRUE, directory_name |-> directory_name,
     main_settings |-> main_settings, name |-> name, page |-> page]

\* filter_map of matches_filter
FilterMap(e) ==
    (COMPLETE :> e.main_settings.completed) @@
    (INCOMPLETE :> ~e.main_settings.completed) @@
    (ERROR :> e.main_settings.error) @@
    (API :> e.main_settings.api_request)

\* The loop of matches_filter over the selected filters.
RECURSIVE AnyFilterHolds(_, _)
AnyFilterHolds(filters, filter_map) ==
    IF filters = <<>> THEN FALSE
    ELSE IF Head(filters) \in DOMAIN filter_map /\ filter_map[Head(filters)] THEN TRUE
    ELSE AnyFilterHolds(Tail(filters), filter_map)

\* A filter that wants every selected status to hold.
matches_filter_every(e, filters) ==
    \A i \in 1..Len(filters) : FilterMap(e)[filters[i]]

\* MapEntry.matches_filter
matches_filter(e, filters) ==
    IF filters = <<>> THEN TRUE ELSE AnyFilterHolds(filters, FilterMap(e))

\* A search that looks for the query inside the directory name in public mode too.
matches_search_contained(e, search_input, public) ==
    IF public THEN Contains(Lower(e.directory_name), Lower(search_input))
    ELSE IF search_input = <<>> THEN TRUE
    ELSE Contains(Lower(e.name), Lower(search_input))

\* A search that looks for the query in the directory name when it is not public.
matches_search_by_directory(e, search_input, public) ==
    IF public THEN Lower(search_input) = Lower(e.directory_name)
    ELSE IF search_input = <<>> THEN TRUE
    ELSE Contains(Lower(e.directory_name), Lower(search_input))

\* MapEntry.matches_search
matches_search(e, search_input, public) ==
    IF public THEN Lower(search_input) = Lower(e.directory_name)
    ELSE IF search_input = <<>> THEN TRUE
    ELSE Contains(Lower(e.name), Lower(search_input))

AllFilters == <<COMPLETE, INCOMPLETE, ERROR, API>>

\* Every selection st.pills can return: the options, each at most once, in any order.
FilterSelections ==
    UNION {{f \in [1..k -> {COMPLETE, INCOMPLETE, ERROR, API}] :
                \A i, j \in 1..k : i # j => f[i] # f[j]} : k \in 0..4}

MatchDirNames ==
    { <<"1", "_", "2", "_", "f", "s">>,
      <<"1", "_", "2", "_", "f", "s", "A">>,
      <<"1", "_", "2", "_", "f", "s", "a", "b">> }

MatchNames ==
    { <<"a", "b">>, <<"A", " ", "b">>, <<"1", "_", "2", "_", "f", "s">> }

MatchQueries ==
    { <<>>, <<"1", "_", "2", "_", "f", "s">>, <<"1", "_", "2", "_", "F", "S">>,
      <<"1", "_", "2", "_", "f", "s", "a">>, <<"1", "_", "2", "_", "F", "S", "A">>,
      <<"1", "_", "2", "_", "f">>, <<"2", "_", "f", "s">>,
      <<"1", "_", "2", "_", "f", "s", "a", "b", "x">>,
      <<"a", "b">>, <<"A">>, <<"B">>, <<" ">>, <<"b", "a">> }

InitMatch ==
    /\ MFS_DATA_DIR = DataDir
    /\ requests = <<>>
    /\ dirs = <<>>
    /\ files = <<>>
    /\ clock = 0
    /\ session = NoSession
    /\ ui = NoUI
    /\ \E d \in MatchDirNames, n \in MatchNames, c \in BOOLEAN, er \in BOOLEAN,
          a \in BOOLEAN :
        obj = MapEntryOf(d, MainSettingsOf(c, er, a, FALSE), n, 1)
    /\ last = NoOp
    /\ hist = <<>>

ApplyFilter ==
    /\ \E filters \in FilterSelections :
        last' = [op |-> "matches_filter", filters |-> filters,
                 ret |-> matches_filter(obj, filters)]
    /\ UNCHANGED <<requests, MFS_DATA_DIR, dirs, files, clock, session, ui, obj, hist>>

ApplySearch ==
    /\ \E search_input \in MatchQueries, public \in BOOLEAN :
        last' = [op |-> "matches_search", search_input |-> search_input,
                 public |-> public,
                 ret |-> matches_search(obj, search_input, public)]
    /\ UNCHANGED <<requests, MFS_DATA_DIR, dirs, files, clock, session, ui, obj, hist>>

NextMatch == ApplyFilter \/ ApplySearch

SpecMatch == InitMatch /\ [][NextMatch]_vars

\* Whether the entry has the status a filter name selects.
HasStatus(e, status) ==
    \/ status = COMPLETE /\ e.main_settings.completed
    \/ status = INCOMPLETE /\ ~e.main_settings.completed
    \/ status = ERROR /\ e.main_settings.error
    \/ status = API /\ e.main_settings.api_request

\* C9: matches_filter(S) is true iff S is empty or the entry has at least one of
\* the selected statuses; matches_filter({Error}) is true iff the error flag is set.
C9_FilterIsOr ==
    last.op = "matches_filter" =>
        /\ last.ret <=>
              (Len(last.filters) = 0 \/
               \E i \in 1..Len(last.filters) : HasStatus(obj, last.filters[i]))
        /\ last.filters = <<ERROR>> => (last.ret <=> obj.main_settings.error)

\* A non-empty selection of several statuses of which only the last one holds.
C9_Witness ==
    /\ last.op = "matches_filter"
    /\ Len(last.filters) >= 2
    /\ last.ret
    /\ ~HasStatus(obj, last.filters[1])
    /\ last.filters[Len(last.filters)] = ERROR

\* Two characters that differ at most in case.
SameLetter(a, b) ==
    \/ a = b
    \/ {a, b} \in {{"A", "a"}, {"B", "b"}, {"F", "f"}, {"S", "s"}}

EqualIgnoringCase(s, t) ==
    Len(s) = Len(t) /\ \A i \in 1..Len(s) : SameLetter(s[i], t[i])

\* s occurs in t, ignoring case, and t is longer.
ProperPartIgnoringCase(s, t) ==
    /\ Len(s) < Len(t)
    /\ \E i \in 0..(Len(t) - Len(s)) :
          \A k \in 1..Len(s) : SameLetter(s[k], t[i + k])

\* C10: in public mode matches_search is true iff the query equals the directory
\* identifier ignoring case: not for an empty query, not for a proper part of the
\* identifier, not for a query the identifier is a proper part of, and not for a
\* query that only matches the display name.
C10_PublicSearchIsExact ==
    (last.op = "matches_search" /\ last.public) =>
        /\ last.ret <=> EqualIgnoringCase(last.search_input, obj.directory_name)
        /\ last.search_input = <<>> => ~last.ret
        /\ ProperPartIgnoringCase(last.search_input, obj.directory_name) => ~last.ret
        /\ ProperPartIgnoringCase(obj.directory_name, last.search_input) => ~last.ret
        /\ (EqualIgnoringCase(last.search_input, obj.name)
              /\ ~EqualIgnoringCase(last.search_input, obj.directory_name)) => ~last.ret

\* A public search that matches an identifier written in another case.
C10_Witness ==
    /\ last.op = "matches_search" /\ last.public
    /\ last.ret
    /\ last.search_input # obj.directory_name

\* s occurs in t as a contiguous part, ignoring case.
OccursIgnoringCase(s, t) ==
    \E i \in 0..(Len(t) - Len(s)) : \A k \in 1..Len(s) : SameLetter(s[k], t[i + k])

\* C11: outside public mode matches_search is true for the empty query, and for any
\* other query iff it occurs, ignoring case, as a contiguous part of the display
\* name; a query that occurs only in the directory identifier does not match.
C11_PrivateSearchIsContainment ==
    (last.op = "matches_search" /\ ~last.public) =>
        /\ last.search_input = <<>> => last.ret
        /\ last.search_input # <<>> =>
              (last.ret <=> OccursIgnoringCase(last.search_input, obj.name))
        /\ (last.search_input # <<>>
              /\ OccursIgnoringCase(last.search_input, obj.directory_name)
              /\ ~OccursIgnoringCase(last.search_input, obj.name)) => ~last.ret

\* A search outside public mode that finds its query, written in another case, inside
\* a longer display name.
C11_Witness ==
    /\ last.op = "matches_search" /\ ~last.public
    /\ last.ret
    /\ last.search_input # <<>>
    /\ Len(last.search_input) < Len(obj.name)
    /\ ~Contains(obj.name, last.search_input)

----------------------------------------------------------------------------
(* MapEntry: the display name and name.txt.                                *)

\* MapEntry._default_name
default_name(main_settings) ==
    main_settings.date \o <<" ", "a", "t", " ">> \o main_settings.time \o
    <<" ", "-", " ">> \o main_settings.latitude \o <<",", " ">> \o
    main_settings.longitude

\* A rename that writes name.txt and leaves the name of the object alone.
update_name_file_only(e, ds, new_name) ==
    IF e.directory_name \in DOMAIN ds
    THEN [e |-> e,
          dirs |-> [ds EXCEPT ![e.directory_name].name_txt = <<new_name>>],
          raised |-> "none"]
    ELSE [e |-> e, dirs |-> ds, raised |-> "FileNotFoundError"]

\* MapEntry.update_name: self.name is set, then name.txt is opened for writing
\* (which raises when the entry directory is gone) and new_name written.
update_name(e, ds, new_name) ==
    LET named == [e EXCEPT !.name = IF new_name # <<>> THEN new_name
                                    ELSE default_name(e.main_settings)]
    IN  IF e.directory_name \in DOMAIN ds
        THEN [e |-> named,
              dirs |-> [ds EXCEPT ![e.directory_name].name_txt = <<new_name>>],
              raised |-> "none"]
        ELSE [e |-> named, dirs |-> ds, raised |-> "FileNotFoundError"]

\* A read that answers an empty name.txt with the default name and writes nothing.
find_name_read_only(first, name) ==
    IF name # <<>> THEN [ret |-> name] @@ first
    ELSE [ret |-> default_name(first.e.main_settings)] @@ first

\* The second half of _find_name: name.txt is read and stripped, and an empty name
\* is replaced by the default name, which is written back. first is the state after
\* the first half; name is the stripped text.
find_name_read(first, name) ==
    IF name # <<>> THEN [ret |-> name] @@ first
    ELSE [ret |-> default_name(first.e.main_settings)] @@
         update_name(first.e, first.dirs, default_name(first.e.main_settings))

\* A name lookup that writes the default name over whatever name.txt holds.
find_name_overwritten(first) ==
    [ret |-> default_name(first.e.main_settings)] @@
    update_name(first.e, first.dirs, default_name(first.e.main_settings))

find_name_checked(first) ==
    IF first.raised # "none" THEN [ret |-> <<>>] @@ first
    ELSE find_name_read(first, Strip(first.dirs[first.e.directory_name].name_txt[1]))

\* MapEntry._find_name: the returned name (ret), the object and the file system after.
\* A missing name.txt is first written with the default name.
find_name(e, ds) ==
    find_name_checked(
        IF e.directory_name \in DOMAIN ds /\ ds[e.directory_name].name_txt # <<>>
        THEN [e |-> e, dirs |-> ds, raised |-> "none"]
        ELSE update_name(e, ds, default_name(e.main_settings)))

\* self.name = self._find_name(directory)
with_found_name(found) ==
    [e |-> [found.e EXCEPT !.name = found.ret], dirs |-> found.dirs,
     raised |-> found.raised]

\* MapEntry.__init__
MapEntryInit(directory_name, main_settings, page, ds) ==
    with_found_name(find_name(MapEntryOf(directory_name, main_settings, <<>>, page), ds))

\* A rename that does not look at its input.
rename_map_entry_unguarded(e, ds, name_input) ==
    update_name(e, ds, name_input)

\* MapEntry.rename_map_entry, name_input being the text of the name widget.
rename_map_entry(e, ds, name_input) ==
    IF name_input # <<>> /\ name_input # e.name
    THEN update_name(e, ds, name_input)
    ELSE [e |-> e, dirs |-> ds, raised |-> "none"]

\* MyMapsUI.get_map_entry: kind is "none" (None returned), "raise" (an exception
\* left the function) or "entry" (a MapEntry returned).
\* with open(path) as f: json.load(f) can be done without an exception that is no
\* json.JSONDecodeError
Readable(st) == st \in {DescOk, DescRejected, DescMalformed}

ReadError(st) ==
    IF st = DescUnreadable THEN "PermissionError" ELSE "UnicodeDecodeError"

\* return MapEntry(...)
entry_made(made) ==
    IF made.raised # "none"
    THEN [kind |-> "raise", raised |-> made.raised, dirs |-> made.dirs]
    ELSE [kind |-> "entry", raised |-> "none", dirs |-> made.dirs, e |-> made.e]

get_map_entry(ds, directory_name, page) ==
    IF directory_name \notin DOMAIN ds
    THEN [kind |-> "none", raised |-> "none", dirs |-> ds]
    ELSE IF ds[directory_name].main = DescMissing \/ ds[directory_name].gen = DescMissing
    THEN [kind |-> "none", raised |-> "none", dirs |-> ds]
    ELSE IF ~Readable(ds[directory_name].main)
    THEN [kind |-> "raise", raised |-> ReadError(ds[directory_name].main), dirs |-> ds]
    ELSE IF ds[directory_name].main = DescMalformed
    THEN [kind |-> "none", raised |-> "none", dirs |-> ds]
    ELSE IF ~Readable(ds[directory_name].gen)
    THEN [kind |-> "raise", raised |-> ReadError(ds[directory_name].gen), dirs |-> ds]
    ELSE IF ds[directory_name].gen = DescMalformed
    THEN [kind |-> "none", raised |-> "none", dirs |-> ds]
    ELSE IF ds[directory_name].main = DescRejected \/ ds[directory_name].gen = DescRejected
    THEN [kind |-> "none", raised |-> "none", dirs |-> ds]
    ELSE entry_made(MapEntryInit(directory_name, ds[directory_name].ms, page, ds))

----------------------------------------------------------------------------
(* Display names: loads and renames of one entry directory.                *)

MaxNameLen == 2

NameChars == {" ", "a", "b"}

\* The texts a name widget or a name.txt of the model can hold.
NameTexts == UNION {[1..k -> NameChars] : k \in 0..MaxNameLen}

NameDir == <<"1", "_", "2", "_", "f", "s">>

\* What last keeps of the operation before it.
Brief(l) == [x \in DOMAIN l \ {"after"} |-> l[x]]

InitName ==
    /\ MFS_DATA_DIR = DataDir
    /\ requests = <<>>
    /\ \E name_txt \in {<<>>} \cup {<<t>> : t \in NameTexts} :
        dirs = (NameDir :> DirOf(DescOk, DescOk, PlainSettings, name_txt, 0))
    /\ files = <<>>
    /\ clock = 0
    /\ session = NoSession
    /\ ui = NoUI
    /\ obj = NoObj
    /\ last = NoOp
    /\ hist = <<>>

\* A fresh load of the directory: get_map_entry builds a new MapEntry.
Load ==
    \E got \in {get_map_entry(dirs, NameDir, 1)} :
        /\ got.kind = "entry"
        /\ obj' = got.e
        /\ dirs' = got.dirs
        /\ last' = [op |-> "load", ret |-> got.e.name, after |-> Brief(last)]
        /\ UNCHANGED <<requests, MFS_DATA_DIR, files, clock, session, ui, hist>>

\* The name widget changes to name_input: the on_change callback of the loaded entry.
Rename ==
    /\ obj.loaded
    /\ \E name_input \in NameTexts :
        \E done \in {rename_map_entry(obj, dirs, name_input)} :
            /\ obj' = done.e
            /\ dirs' = done.dirs
            /\ last' = [op |-> "rename", name_input |-> name_input,
                        name_before |-> obj.name,
                        name_txt_before |-> dirs[NameDir].name_txt,
                        after |-> Brief(last)]
    /\ UNCHANGED <<requests, MFS_DATA_DIR, files, clock, session, ui, hist>>

NextName == Load \/ Rename

SpecName == InitName /\ [][NextName]_vars

\* A rename the code acts on: a non-empty name other than the current one.
Renaming(l) ==
    l.op = "rename" /\ l.name_input # <<>> /\ l.name_input # l.name_before

\* C7 as stated: after a rename to a non-empty, different name the in-memory name is
\* the new name, and a fresh load returns that same name.
C7_RenameRoundTrip ==
    /\ Renaming(last) => obj.name = last.name_input
    /\ (last.op = "load" /\ Renaming(last.after)) => last.ret = last.after.name_input

\* Text without its leading and trailing blanks, stated on its own.
Trimmed(t) ==
    IF \A i \in 1..Len(t) : t[i] = " " THEN <<>>
    ELSE LET lo == CHOOSE i \in 1..Len(t) :
                       t[i] # " " /\ \A k \in 1..(i - 1) : t[k] = " "
             hi == CHOOSE i \in 1..Len(t) :
                       t[i] # " " /\ \A k \in (i + 1)..Len(t) : t[k] = " "
         IN  [k \in 1..(hi - lo + 1) |-> t[lo + k - 1]]

DefaultNameText ==
    <<"d", " ", "a", "t", " ", "1", " ", "-", " ", "4", ",", " ", "2">>

\* C7 amended: after such a rename the in-memory name is the new name and name.txt
\* holds it as given; a fresh load returns the new name without its leading and
\* trailing whitespace, or the default name when nothing else is left of it.
C7_RenameRoundTripTrimmed ==
    /\ Renaming(last) =>
          /\ obj.name = last.name_input
          /\ dirs[NameDir].name_txt = <<last.name_input>>
    /\ (last.op = "load" /\ Renaming(last.after)) =>
          last.ret = IF Trimmed(last.after.name_input) # <<>>
                     THEN Trimmed(last.after.name_input)
                     ELSE DefaultNameText

\* A fresh load after a rename to a name with a blank at its end.
C7_Witness ==
    /\ last.op = "load" /\ Renaming(last.after)
    /\ last.after.name_input = <<"a", " ">>
    /\ last.ret = <<"a">>

\* C8: a rename to the empty name, or to the current name, changes neither the
\* in-memory name nor name.txt.
C8_RenameNoOp ==
    (last.op = "rename" /\ (last.name_input = <<>> \/ last.name_input = last.name_before))
        => /\ obj.name = last.name_before
           /\ dirs[NameDir].name_txt = last.name_txt_before

\* A rename to the current name, and one to the empty name, of an entry whose
\* name.txt holds a name.
C8_Witness ==
    /\ last.op = "rename"
    /\ last.name_input = <<>>
    /\ last.after.op = "rename" /\ last.after.name_input = last.after.name_before
    /\ obj.name = <<"a", "b">>

\* C14: after any loads and renames of a valid entry, whatever name.txt held at first,
\* a load returns a non-empty name, and after it name.txt exists and its content
\* without leading and trailing blanks is the name the load returned.
C14_LoadYieldsPersistedName ==
    last.op = "load" =>
        /\ last.ret # <<>>
        /\ dirs[NameDir].name_txt # <<>>
        /\ Trimmed(dirs[NameDir].name_txt[1]) = last.ret

\* A load after a rename to a blank name: the default name comes back and is in
\* name.txt.
C14_Witness ==
    /\ last.op = "load"
    /\ last.after.op = "rename"
    /\ last.after.name_input = <<" ">>
    /\ last.ret = DefaultNameText
    /\ dirs[NameDir].name_txt = <<DefaultNameText>>

----------------------------------------------------------------------------
(* MapEntry: the archive and the Delete button.                            *)

\* What an archive of an entry directory holds.
Snapshot(directory_name, d) ==
    [src |-> directory_name, ver |-> d.ver, name_txt |-> d.name_txt]

\* shutil.make_archive(base_name, "zip", root_dir) for the entry directory
\* directory_name: it raises when the directory is gone or when base_name + ".zip"
\* is a directory, and writes base_name + ".zip" otherwise.
make_archive(base_name, directory_name, root, ds, fl) ==
    LET target == base_name \o ZipSuffix
    IN  IF directory_name \notin DOMAIN ds
        THEN [raised |-> "FileNotFoundError", files |-> fl]
        ELSE IF \E n \in DOMAIN ds : PathJoin(root, n) = target
        THEN [raised |-> "IsADirectoryError", files |-> fl]
        ELSE [raised |-> "none",
              files |-> (target :> Snapshot(directory_name, ds[directory_name])) @@ fl]

\* The path _archive returns.
full_archive_path(root, directory_name) ==
    PathJoin(root, directory_name \o ZipSuffix)

\* MapEntry._archive (do_not_check is not read by the code): the returned path, whether
\* make_archive was called, the exception that left the call, and the files after.
archive(directory_name, root, ds, fl) ==
    IF ~IsFile(fl, full_archive_path(root, directory_name))
    THEN [ret |-> full_archive_path(root, directory_name), compressed |-> TRUE] @@
         make_archive(RemoveAll(full_archive_path(root, directory_name), ZipSuffix),
                      directory_name, root, ds, fl)
    ELSE [ret |-> full_archive_path(root, directory_name), compressed |-> FALSE,
          raised |-> "none", files |-> fl]

\* shutil.rmtree(self.directory)
rmtree(directory_name, ds) == [n \in DOMAIN ds \ {directory_name} |-> ds[n]]

\* The Delete button from archive_path = self._archive(do_not_check=True) on, a being
\* what _archive did, removed the directories that are left.
delete_archived(a, removed) ==
    IF a.raised # "none"
    THEN [res |-> FALSE, dirs |-> removed, files |-> a.files, compressed |-> a.compressed]
    ELSE [res |-> TRUE, dirs |-> removed,
          files |-> [p \in DOMAIN a.files \ {a.ret} |-> a.files[p]],
          compressed |-> a.compressed]

\* The body of the Delete button: rmtree, _archive(do_not_check=True), os.remove,
\* any exception caught and turned into res = False.
delete_entry(directory_name, root, ds, fl) ==
    IF directory_name \notin DOMAIN ds
    THEN [res |-> FALSE, dirs |-> ds, files |-> fl, compressed |-> FALSE]
    ELSE delete_archived(archive(directory_name, root, rmtree(directory_name, ds), fl),
                         rmtree(directory_name, ds))

----------------------------------------------------------------------------
(* Archives: entries created, changed, archived, deleted and re-created.   *)

MaxVer == 4

ArchiveNames ==
    { <<"1", "_", "2", "_", "f", "s", "5">>,
      <<"1", "_", "2", "_", "f", "s", ".", "z", "i", "p", "5">> }

InitArchive ==
    /\ MFS_DATA_DIR = DataDir
    /\ requests = <<>>
    /\ dirs = <<>>
    /\ files = <<>>
    /\ clock = 0
    /\ session = NoSession
    /\ ui = NoUI
    /\ obj = NoObj
    /\ last = NoOp
    /\ hist = [n \in ArchiveNames |-> "absent"]

\* The generator creates an entry directory under a name that is free.
CreateEntry ==
    /\ clock < MaxVer
    /\ \E n \in ArchiveNames \ DOMAIN dirs :
        /\ dirs' = (n :> DirOf(DescOk, DescOk, PlainSettings, <<>>, clock + 1)) @@ dirs
        /\ hist' = [hist EXCEPT ![n] = IF @ = "deleted" THEN "recreated" ELSE "created"]
        /\ last' = [op |-> "create", id |-> n]
    /\ clock' = clock + 1
    /\ UNCHANGED <<requests, MFS_DATA_DIR, files, session, ui, obj>>

\* The contents of an entry directory change.
ModifyContents ==
    /\ clock < MaxVer
    /\ \E n \in DOMAIN dirs :
        /\ dirs' = [dirs EXCEPT ![n].ver = clock + 1]
        /\ last' = [op |-> "modify", id |-> n]
    /\ clock' = clock + 1
    /\ UNCHANGED <<requests, MFS_DATA_DIR, files, session, ui, obj, hist>>

\* The Prepare download button of an entry: _archive().
PrepareDownload ==
    /\ \E n \in DOMAIN dirs :
        \E a \in {archive(n, MFS_DATA_DIR, dirs, files)} :
            /\ files' = a.files
            /\ last' = [op |-> "archive", id |-> n, ret |-> a.ret,
                        raised |-> a.raised, compressed |-> a.compressed,
                        files_before |-> files, hist_before |-> hist[n]]
            /\ hist' = [hist EXCEPT ![n] = IF a.raised = "none" THEN "archived"
                                           ELSE IF @ = "recreated" THEN "created" ELSE @]
    /\ UNCHANGED <<requests, MFS_DATA_DIR, dirs, clock, session, ui, obj>>

\* The Delete button of an entry.
DeleteEntry ==
    /\ \E n \in DOMAIN dirs :
        \E del \in {delete_entry(n, MFS_DATA_DIR, dirs, files)} :
            /\ dirs' = del.dirs
            /\ files' = del.files
            /\ last' = [op |-> "delete", id |-> n, res |-> del.res,
                        compressed |-> del.compressed, files_before |-> files]
            /\ hist' = [hist EXCEPT ![n] = "deleted"]
    /\ UNCHANGED <<requests, MFS_DATA_DIR, clock, session, ui, obj>>

NextArchive == CreateEntry \/ ModifyContents \/ PrepareDownload \/ DeleteEntry

SpecArchive == InitArchive /\ [][NextArchive]_vars

\* <root>/<directory-id>.zip
ZipPathOf(root, id) == root \o <<"/">> \o id \o <<".", "z", "i", "p">>

\* C5: a second _archive call of an entry that was archived and not deleted since
\* returns <root>/<id>.zip again, compresses nothing and leaves the files as they were.
C5_SecondArchiveIsCacheHit ==
    (last.op = "archive" /\ last.hist_before = "archived") =>
        /\ last.raised = "none"
        /\ last.ret = ZipPathOf(MFS_DATA_DIR, last.id)
        /\ ~last.compressed
        /\ files = last.files_before

\* C6: after delete() no file is left at <root>/<id>.zip, and the next _archive call
\* of the entry re-created under the same name compresses the new directory and
\* returns that archive.
C6_DeleteThenRebuildIsFresh ==
    /\ last.op = "delete" => ZipPathOf(MFS_DATA_DIR, last.id) \notin DOMAIN files
    /\ (last.op = "archive" /\ last.hist_before = "recreated") =>
          /\ last.compressed
          /\ last.ret \in DOMAIN files =>
                files[last.ret] = Snapshot(last.id, dirs[last.id])

\* C12: the Delete button reports success iff, when it is done, neither the entry
\* directory nor the archive <root>/<id>.zip exists, for entries that have an archive
\* and for entries that were never archived.
C12_DeleteOutcomeReflectsFiles ==
    last.op = "delete" =>
        (last.res <=> /\ last.id \notin DOMAIN dirs
                      /\ ZipPathOf(MFS_DATA_DIR, last.id) \notin DOMAIN files)

\* C13: when _archive returns for an existing entry directory, the path it returns is
\* <root>/<id>.zip and a file exists there, also for names that hold ".zip".
C13_ArchiveIsAtReturnedPath ==
    (last.op = "archive" /\ last.raised = "none") =>
        /\ last.ret = ZipPathOf(MFS_DATA_DIR, last.id)
        /\ last.ret \in DOMAIN files

\* C20: the Delete button does not call shutil.make_archive and creates no file, also
\* for an entry that has no archive.
C20_DeleteNeverCompresses ==
    last.op = "delete" =>
        /\ ~last.compressed
        /\ DOMAIN files \subseteq DOMAIN last.files_before

----------------------------------------------------------------------------
(* _archive step by step: shutil.make_archive opens <base>.zip for writing, *)
(* adds the files of the directory one after another and closes it, while   *)
(* other requests of the server run their own handlers.                     *)

Requests == {1, 2}

\* The file shutil.make_archive writes for an entry.
archive_target(root, directory_name) ==
    RemoveAll(full_archive_path(root, directory_name), ZipSuffix) \o ZipSuffix

\* An archive file that was opened for writing and not closed yet, or never finished.
PartialArchive(directory_name) == [src |-> directory_name, partial |-> TRUE]

IsPartial(content) == "partial" \in DOMAIN content

Idle == [pc |-> "idle"]

InitCompress ==
    /\ MFS_DATA_DIR = DataDir
    /\ requests = [r \in Requests |-> Idle]
    /\ dirs = [n \in ArchiveNames |-> DirOf(DescOk, DescOk, PlainSettings, <<>>, 1)]
    /\ files = <<>>
    /\ clock = 1
    /\ session = NoSession
    /\ ui = NoUI
    /\ obj = NoObj
    /\ last = NoOp
    /\ hist = <<>>

\* Prepare download of entry n in request r: os.path.isfile(full_archive_path). A
\* file that is there is returned and opened for the download.
ArchiveCheck(r, n) ==
    /\ requests[r].pc = "idle"
    /\ n \in DOMAIN dirs
    /\ IF IsFile(files, full_archive_path(MFS_DATA_DIR, n))
       THEN /\ requests' = requests
            /\ last' = [op |-> "archive", request |-> r, id |-> n, raised |-> "none",
                        compressed |-> FALSE,
                        served |-> files[full_archive_path(MFS_DATA_DIR, n)]]
       ELSE /\ requests' = [requests EXCEPT ![r] = [pc |-> "make_archive", id |-> n]]
            /\ last' = [op |-> "isfile", request |-> r, id |-> n]
    /\ UNCHANGED <<MFS_DATA_DIR, dirs, files, clock, session, ui, obj, hist>>

\* shutil.make_archive creates (or truncates) the zip file, or raises.
CompressOpen(r) ==
    /\ requests[r].pc = "make_archive"
    /\ \E made \in {make_archive(RemoveAll(full_archive_path(MFS_DATA_DIR, requests[r].id),
                                           ZipSuffix),
                                 requests[r].id, MFS_DATA_DIR, dirs, files)} :
        IF made.raised # "none"
        THEN /\ requests' = [requests EXCEPT ![r] = Idle]
             /\ files' = files
             /\ last' = [op |-> "archive", request |-> r, id |-> requests[r].id,
                         raised |-> made.raised, compressed |-> TRUE]
        ELSE /\ requests' = [requests EXCEPT ![r] = [pc |-> "writing", id |-> @.id]]
             /\ files' = (archive_target(MFS_DATA_DIR, requests[r].id) :>
                              PartialArchive(requests[r].id)) @@ files
             /\ last' = [op |-> "open", request |-> r, id |-> requests[r].id]
    /\ UNCHANGED <<MFS_DATA_DIR, dirs, clock, session, ui, obj, hist>>

\* The last file is added and the zip file closed; _archive returns. When another
\* request is writing the same file, what the file holds is not determined.
CompressClose(r) ==
    /\ requests[r].pc = "writing"
    /\ \E content \in
           {Snapshot(requests[r].id, dirs[requests[r].id])} \cup
           (IF \E q \in Requests \ {r} :
                   /\ requests[q].pc = "writing"
                   /\ archive_target(MFS_DATA_DIR, requests[q].id) =
                          archive_target(MFS_DATA_DIR, requests[r].id)
            THEN {PartialArchive(requests[r].id)} ELSE {}) :
        files' = (archive_target(MFS_DATA_DIR, requests[r].id) :> content) @@ files
    /\ requests' = [requests EXCEPT ![r] = Idle]
    /\ last' = [op |-> "archive", request |-> r, id |-> requests[r].id,
                raised |-> "none", compressed |-> TRUE]
    /\ UNCHANGED <<MFS_DATA_DIR, dirs, clock, session, ui, obj, hist>>

\* A write fails part-way (no space left, a file that cannot be read): make_archive
\* raises and leaves what it wrote.
CompressFail(r) ==
    /\ requests[r].pc = "writing"
    /\ requests' = [requests EXCEPT ![r] = Idle]
    /\ last' = [op |-> "archive", request |-> r, id |-> requests[r].id,
                raised |-> "OSError", compressed |-> TRUE]
    /\ UNCHANGED <<MFS_DATA_DIR, dirs, files, clock, session, ui, obj, hist>>

NextCompress ==
    \E r \in Requests :
        \/ \E n \in ArchiveNames : ArchiveCheck(r, n)
        \/ CompressOpen(r)
        \/ CompressClose(r)
        \/ CompressFail(r)

SpecCompress == InitCompress /\ [][NextCompress]_vars

\* C16: a file at <root>/<id>.zip is always a completely built archive, also after a
\* compression that failed part-way and while another request is compressing, and a
\* cache hit never hands out a partly written archive.
C16_ArchiveFileIsComplete ==
    /\ \A n \in DOMAIN dirs :
          ZipPathOf(MFS_DATA_DIR, n) \in DOMAIN files =>
              ~IsPartial(files[ZipPathOf(MFS_DATA_DIR, n)])
    /\ (last.op = "archive" /\ last.raised = "none" /\ ~last.compressed) =>
          ~IsPartial(last.served)

----------------------------------------------------------------------------
(* MyMapsUI: a script run (__init__ and build_page) and the page buttons.  *)

\* math.ceil(n / d) for n >= 0, d > 0
CeilDiv(n, d) == IF n % d = 0 THEN n \div d ELSE (n \div d) + 1

\* seq[lo:hi] for 0 <= lo and 0 <= hi <= len(seq)
Slice(seq, lo, hi) ==
    IF lo >= hi \/ lo >= Len(seq) THEN <<>> ELSE SubSeq(seq, lo + 1, hi)

\* A page count that rounds down.
update_total_pages_floor(sess, filtered_elements_count) ==
    ("total_pages" :> (filtered_elements_count \div PAGE_SIZE)) @@ sess

\* MyMapsUI.update_total_pages
update_total_pages(sess, filtered_elements_count) ==
    ("total_pages" :> CeilDiv(filtered_elements_count, PAGE_SIZE)) @@ sess

\* The first loop of build_page: get_map_entry on every directory, in order, until
\* one raises; the name.txt files written on the way stay written.
RECURSIVE LoadEntries(_, _, _)
RECURSIVE LoadedOne(_, _, _)

\* One turn of that loop, got being what get_map_entry returned.
LoadedOne(got, others, page) ==
    IF got.kind = "raise"
    THEN [entries |-> <<>>, dirs |-> got.dirs, raised |-> got.raised]
    ELSE [LoadEntries(others, got.dirs, page) EXCEPT !.entries =
              IF got.kind = "entry" THEN <<got.e>> \o @ ELSE @]

LoadEntries(map_directories, ds, page) ==
    IF map_directories = <<>> THEN [entries |-> <<>>, dirs |-> ds, raised |-> "none"]
    ELSE LoadedOne(get_map_entry(ds, Head(map_directories), page),
                   Tail(map_directories), page)

\* The second loop of build_page.
RECURSIVE FilterEntries(_, _, _, _)
FilterEntries(all_map_entries, filter, search_input, public) ==
    IF all_map_entries = <<>> THEN <<>>
    ELSE (IF matches_filter(Head(all_map_entries), filter)
             /\ matches_search(Head(all_map_entries), search_input, public)
          THEN <<Head(all_map_entries)>> ELSE <<>>)
         \o FilterEntries(Tail(all_map_entries), filter, search_input, public)

\* The slice of build_page.
page_slice(filtered_map_entries, current_page) ==
    LET first_idx == (current_page - 1) * PAGE_SIZE
        last_idx == first_idx + PAGE_SIZE
        capped == IF last_idx < Len(filtered_map_entries) THEN last_idx
                  ELSE Len(filtered_map_entries)
    IN  Slice(filtered_map_entries, first_idx, capped)

\* The end of build_page: the warning and the entries of the current page, read
\* from the session state after update_total_pages.
build_page_shown(self, filtered, ds, sess) ==
    [self |-> [self EXCEPT !.raised = "none",
                           !.filtered = filtered,
                           !.warning = (filtered = <<>>),
                           !.shown = page_slice(filtered, sess.current_page)],
     dirs |-> ds, session |-> sess]

\* build_page from the filter loop on.
build_page_filtered(self, filtered, ds, sess) ==
    build_page_shown(self, filtered, ds, update_total_pages(sess, Len(filtered)))

\* build_page after the first loop: an exception of get_map_entry leaves it.
build_page_loaded(self, loaded, sess) ==
    IF loaded.raised # "none"
    THEN [self |-> [self EXCEPT !.raised = loaded.raised, !.shown = <<>>,
                                !.filtered = <<>>, !.warning = FALSE],
          dirs |-> loaded.dirs, session |-> sess]
    ELSE build_page_filtered(
             self,
             FilterEntries(loaded.entries, self.filter, self.search_input, self.public),
             loaded.dirs, sess)

\* MyMapsUI.build_page on the object self, listing being what os.listdir returns.
build_page(self, listing, ds, sess) ==
    build_page_loaded(
        self, LoadEntries(find_map_directories(listing, ds, TRUE), ds, self.page), sess)

\* MyMapsUI.__init__(public) with the filter pills and the search box holding
\* filter_pills and search_input.
\* The end of __init__: Previous and Next are rendered when self.total_pages > 1
\* (not when build_page raised).
with_navigation(built) ==
    [built EXCEPT !.self.nav = (built.self.raised = "none" /\ built.self.total_pages > 1)]

\* __init__ from the session state on.
init_session(self, total_pages, listing, ds, sess) ==
    with_navigation(
        build_page([self EXCEPT !.constructed = TRUE,
                                !.total_pages = total_pages,
                                !.page = sess.current_page],
                   listing, ds, sess))

MyMapsUI_widgets(public, filter_pills, search_input) ==
    [NoUI EXCEPT !.opened = TRUE, !.public = public,
                 !.filter = IF public THEN AllFilters ELSE filter_pills,
                 !.search_input = search_input]

\* __init__ from total_directories = self.find_map_directories() on.
init_scanned(self, total_pages, listing, ds, sess) ==
    init_session(self, total_pages, listing, ds,
                 sess @@ ("current_page" :> 1) @@ ("total_pages" :> total_pages))

MyMapsUI(public, filter_pills, search_input, listing, ds, sess) ==
    IF public /\ search_input = <<>>
    THEN [self |-> MyMapsUI_widgets(public, filter_pills, search_input),
          dirs |-> ds, session |-> sess]
    ELSE init_scanned(MyMapsUI_widgets(public, filter_pills, search_input),
                      CeilDiv(Len(find_map_directories(listing, ds, TRUE)), PAGE_SIZE),
                      listing, ds, sess)

\* A Previous callback that leaves the page where it is.
previous_page_ignored(self, listing, ds, sess) ==
    [self |-> self, dirs |-> ds, session |-> sess]

\* MyMapsUI.previous_page
previous_page(self, listing, ds, sess) ==
    IF sess.current_page > 1
    THEN build_page(self, listing, ds, [sess EXCEPT !.current_page = @ - 1])
    ELSE [self |-> self, dirs |-> ds, session |-> sess]

\* MyMapsUI.next_page
next_page(self, listing, ds, sess) ==
    IF sess.current_page < self.total_pages
    THEN build_page(self, listing, ds, [sess EXCEPT !.current_page = @ + 1])
    ELSE [self |-> self, dirs |-> ds, session |-> sess]

\* The Previous and Next buttons as rendered at the end of __init__.
PreviousEnabled(self, sess) == self.nav /\ sess.current_page # 1

NextEnabled(self, sess) == self.nav /\ sess.current_page # sess.total_pages

\* One enumeration of a set of names, and the orders the model lets os.listdir use on
\* a large root: the ascending order, and the descending order started in its middle.
RECURSIVE SomeOrder(_)
SomeOrder(S) ==
    IF S = {} THEN <<>>
    ELSE LET x == CHOOSE y \in S : TRUE IN <<x>> \o SomeOrder(S \ {x})

Rotated(seq, k) == SubSeq(seq, k + 1, Len(seq)) \o SubSeq(seq, 1, k)

Reversed(seq) == [i \in 1..Len(seq) |-> seq[Len(seq) + 1 - i]]

ListDirSample(S) ==
    LET desc == SortedReverse(SomeOrder(S))
    IN  {Reversed(desc), Rotated(desc, Cardinality(S) \div 2)}

----------------------------------------------------------------------------
(* Script runs of the page.                                                *)

\* The entries the root of the catalog page starts with, and how many of them the
\* model lets the user delete.
NumEntries == 11

MaxDeleted == 1

\* The selections of the filter pills and the texts of the search box the model uses.
FilterChoices == {<<>>, <<COMPLETE>>, <<ERROR>>, <<INCOMPLETE, API>>}

SearchChoices == {<<>>, <<"m">>, <<"0", "2", "_", "1", "_", "F", "S">>}

\* The widgets as a first visit finds them: pills default [Complete], search empty.
DefaultFilter == <<COMPLETE>>

\* A script run with the widgets holding filter_pills and search_input.
RunScript(filter_pills, search_input, orders) ==
    \E listing \in orders :
        \E run \in {MyMapsUI(ui.public, filter_pills, search_input, listing, dirs,
                             session)} :
            /\ ui' = run.self
            /\ dirs' = run.dirs
            /\ session' = run.session

\* The first visit of the page.
Open ==
    /\ ~ui.opened
    /\ RunScript(DefaultFilter, <<>>, ListDirSample(RootNames(MFS_DATA_DIR, dirs, files)))
    /\ last' = [op |-> "run"]
    /\ UNCHANGED <<requests, MFS_DATA_DIR, files, clock, obj, hist>>

\* The user changes the filter pills or the search text (or reloads): a script run.
ChangeWidgets ==
    /\ ui.opened
    /\ \E f \in FilterChoices, q \in SearchChoices :
        RunScript(f, q, ListDirSample(RootNames(MFS_DATA_DIR, dirs, files)))
    /\ last' = [op |-> "run"]
    /\ UNCHANGED <<requests, MFS_DATA_DIR, files, clock, obj, hist>>

\* A click on Next: the on_click callback of the rendered page, then the script run.
ClickNext ==
    /\ NextEnabled(ui, session)
    /\ \E listing \in ListDirSample(RootNames(MFS_DATA_DIR, dirs, files)) :
        \E cb \in {next_page(ui, listing, dirs, session)} :
        \E run \in {MyMapsUI(ui.public, ui.filter, ui.search_input, listing, cb.dirs,
                             cb.session)} :
            /\ ui' = run.self
            /\ dirs' = run.dirs
            /\ session' = run.session
            /\ last' = [op |-> "next_page", page_before |-> session.current_page,
                        callback |-> cb.self]
    /\ UNCHANGED <<requests, MFS_DATA_DIR, files, clock, obj, hist>>

\* A click on Previous.
ClickPrevious ==
    /\ PreviousEnabled(ui, session)
    /\ \E listing \in ListDirSample(RootNames(MFS_DATA_DIR, dirs, files)) :
        \E cb \in {previous_page(ui, listing, dirs, session)} :
        \E run \in {MyMapsUI(ui.public, ui.filter, ui.search_input, listing, cb.dirs,
                             cb.session)} :
            /\ ui' = run.self
            /\ dirs' = run.dirs
            /\ session' = run.session
            /\ last' = [op |-> "previous_page", page_before |-> session.current_page,
                        callback |-> cb.self]
    /\ UNCHANGED <<requests, MFS_DATA_DIR, files, clock, obj, hist>>

\* A click on Delete of a shown entry: the script runs, and get_ui of that entry
\* deletes it after the page was built.
ClickDelete ==
    /\ ui.constructed
    /\ Cardinality(DOMAIN dirs) > NumEntries - MaxDeleted
    /\ \E i \in 1..Len(ui.shown) :
        \E listing \in ListDirSample(RootNames(MFS_DATA_DIR, dirs, files)) :
            \E run \in {MyMapsUI(ui.public, ui.filter, ui.search_input, listing, dirs,
                                 session)} :
            \E del \in {delete_entry(ui.shown[i].directory_name, MFS_DATA_DIR, run.dirs,
                                     files)} :
                /\ \E k \in 1..Len(run.self.shown) :
                      run.self.shown[k].directory_name = ui.shown[i].directory_name
                /\ ui' = run.self
                /\ session' = run.session
                /\ dirs' = del.dirs
                /\ files' = del.files
                /\ last' = [op |-> "delete", id |-> ui.shown[i].directory_name,
                            res |-> del.res, compressed |-> del.compressed,
                            files_before |-> files]
    /\ UNCHANGED <<requests, MFS_DATA_DIR, clock, obj, hist>>

----------------------------------------------------------------------------
(* The catalog page over a root of valid entries: filters, search, pages,  *)
(* deletions.                                                              *)

DigitChar(k) == <<"0", "1", "2", "3", "4", "5", "6", "7", "8", "9">>[k + 1]

\* The directory name of the i-th entry: 01_1_fs, 02_1_fs, ...
EntryName(i) == <<DigitChar(i \div 10), DigitChar(i % 10), "_", "1", "_", "f", "s">>

\* The i-th entry: its flags differ from entry to entry, and so does its name.txt: it
\* holds a name, is missing, or holds a blank.
EntryDir(i) ==
    DirOf(DescOk, DescOk,
          MainSettingsOf(i % 3 # 0, i % 4 = 0, i % 5 = 0, FALSE),
          IF i % 2 = 1 THEN << <<"M", "a", "p">> >>
          ELSE IF i % 4 = 0 THEN << <<" ">> >> ELSE <<>>,
          0)

Init ==
    /\ MFS_DATA_DIR = DataDir
    /\ requests = <<>>
    /\ dirs = [n \in {EntryName(i) : i \in 1..NumEntries} |->
                  EntryDir(CHOOSE i \in 1..NumEntries : EntryName(i) = n)]
    /\ files = <<>>
    /\ clock = 0
    /\ session = NoSession
    /\ \E public \in BOOLEAN : ui = [NoUI EXCEPT !.public = public]
    /\ obj = NoObj
    /\ last = NoOp
    /\ hist = <<>>

Next == Open \/ ChangeWidgets \/ ClickNext \/ ClickPrevious \/ ClickDelete

Spec == Init /\ [][Next]_vars

\* The page was built by the last script run.
PageBuilt == ui.constructed /\ ui.raised = "none"


\* C3: whenever build_page ran with a non-empty filtered set, the page number used to
\* slice it lies in 1..total_pages, whatever current_page earlier requests left in the
\* session, and the page shown is not empty.
C3_PageWithinRange ==
    (PageBuilt /\ ui.filtered # <<>>) =>
        /\ session.current_page \in 1..session.total_pages
        /\ ui.shown # <<>>

\* C4: after build_page over n filtered entries the page count of the session is
\* ceil(n / 5), which is 0 when n = 0, and a page p in 1..total_pages shows the five
\* entries from position 5 * (p - 1) + 1 on, the last page the n - 5 * (total_pages - 1)
\* entries that are left.
C4_PageCountAndSlices ==
    PageBuilt =>
        LET n == Len(ui.filtered)
            total == session.total_pages
            p == session.current_page
        IN  /\ total \in Nat
            /\ PAGE_SIZE * total >= n
            /\ total > 0 => PAGE_SIZE * (total - 1) < n
            /\ (total = 0) <=> (n = 0)
            /\ p \in 1..total =>
                /\ Len(ui.shown) = IF p < total THEN PAGE_SIZE
                                   ELSE n - PAGE_SIZE * (total - 1)
                /\ \A k \in 1..Len(ui.shown) :
                      ui.shown[k] = ui.filtered[PAGE_SIZE * (p - 1) + k]

\* Eleven filtered entries on three pages, the third page showing the one that is left.
C4_Witness ==
    /\ PageBuilt
    /\ Len(ui.filtered) = 11
    /\ session.total_pages = 3
    /\ session.current_page = 3
    /\ Len(ui.shown) = 1

\* C15: a click on Next increments current_page only when it is less than the page
\* count of the filtered set, the count kept in the session and shown to the user, and
\* a click on Previous decrements it only when it is greater than 1.
C15_NavigationWithinFilteredPages ==
    /\ (last.op = "next_page" /\ session.current_page # last.page_before) =>
          /\ session.current_page = last.page_before + 1
          /\ last.page_before < session.total_pages
    /\ (last.op = "previous_page" /\ session.current_page # last.page_before) =>
          /\ session.current_page = last.page_before - 1
          /\ last.page_before > 1

----------------------------------------------------------------------------
(* The catalog page over a root in which one entry directory has damaged   *)
(* descriptor files.                                                       *)

CatalogEntries == 3

\* A valid entry of that root.
CatalogDir(i) ==
    DirOf(DescOk, DescOk, MainSettingsOf(TRUE, i = 2, FALSE, FALSE),
          << <<"M", "a", "p">> >>, 0)

InitCatalog ==
    /\ MFS_DATA_DIR = DataDir
    /\ requests = <<>>
    /\ \E bad \in 1..CatalogEntries, main \in DescStates, gen \in DescStates :
        dirs = [n \in {EntryName(i) : i \in 1..CatalogEntries} |->
                   IF n = EntryName(bad)
                   THEN DirOf(main, gen, MainSettingsOf(TRUE, FALSE, FALSE, FALSE),
                              << <<"M", "a", "p">> >>, 0)
                   ELSE CatalogDir(CHOOSE i \in 1..CatalogEntries : EntryName(i) = n)]
    /\ files = <<>>
    /\ clock = 0
    /\ session = NoSession
    /\ \E public \in BOOLEAN : ui = [NoUI EXCEPT !.public = public]
    /\ obj = NoObj
    /\ last = NoOp
    /\ hist = <<>>

NextCatalog == Open \/ ChangeWidgets

SpecCatalog == InitCatalog /\ [][NextCatalog]_vars

\* An entry directory whose two descriptor files can be read, parsed and accepted.
ValidEntry(n) == dirs[n].main = DescOk /\ dirs[n].gen = DescOk

\* The entries a script run has to list for its filter and search.
Listed(n) ==
    /\ ValidEntry(n)
    /\ matches_filter(MapEntryOf(n, dirs[n].ms, dirs[n].name_txt[1], 1), ui.filter)
    /\ matches_search(MapEntryOf(n, dirs[n].ms, dirs[n].name_txt[1], 1),
                      ui.search_input, ui.public)

\* C1: for every entry directory whose main_settings.json or generation_settings.json
\* is missing, unreadable or undecodable as text, not well-formed JSON, or rejected by
\* settings construction, build_page completes without raising, the entry is absent
\* from the listing and all valid entries are still listed.
C1_DamagedEntriesAreSkipped ==
    ui.constructed =>
        /\ ui.raised = "none"
        /\ {ui.filtered[k].directory_name : k \in 1..Len(ui.filtered)} =
               {n \in DOMAIN dirs : Listed(n)}

\* The slices of pages 1..total_pages one after another.
RECURSIVE PagesInOrder(_, _)
PagesInOrder(filtered_map_entries, total_pages) ==
    IF total_pages = 0 THEN <<>>
    ELSE PagesInOrder(filtered_map_entries, total_pages - 1) \o
         page_slice(filtered_map_entries, total_pages)

\* C17: for the file system, filter and query of a listing request, the slices of the
\* pages 1..total_pages, one after another, are exactly the valid entries that satisfy
\* matches_filter and matches_search, in descending order of their directory names,
\* each of them once. (A request that deletes an entry changes the file system after
\* its listing was built and is left out.)
C17_PagesPartitionMatches ==
    (ui.constructed /\ last.op # "delete") =>
        LET pages == PagesInOrder(ui.filtered, session.total_pages)
        IN  /\ {pages[k].directory_name : k \in 1..Len(pages)} =
                   {n \in DOMAIN dirs : Listed(n)}
            /\ \A k \in 1..(Len(pages) - 1) :
                  LexLess(pages[k + 1].directory_name, pages[k].directory_name)

----------------------------------------------------------------------------
(* A listing request step by step, while another request deletes entry     *)
(* directories: the file system calls of build_page, get_map_entry and     *)
(* MapEntry.__init__ happen one after another, not at once.                *)

RaceEntries == 3

\* The request that lists.
Lister == 1

\* os.path.isfile of both descriptor files.
descriptors_exist(ds, directory_name) ==
    /\ directory_name \in DOMAIN ds
    /\ ds[directory_name].main # DescMissing
    /\ ds[directory_name].gen # DescMissing

\* The two reads of get_map_entry and the from_json calls: open() of a file whose
\* directory is gone raises FileNotFoundError, which is no json.JSONDecodeError.
load_descriptors(ds, directory_name) ==
    IF directory_name \notin DOMAIN ds THEN "FileNotFoundError"
    ELSE IF ~Readable(ds[directory_name].main) THEN ReadError(ds[directory_name].main)
    ELSE IF ds[directory_name].main = DescMalformed THEN "none"
    ELSE IF ~Readable(ds[directory_name].gen) THEN ReadError(ds[directory_name].gen)
    ELSE IF ds[directory_name].gen = DescMalformed THEN "none"
    ELSE IF ds[directory_name].main = DescRejected \/ ds[directory_name].gen = DescRejected
    THEN "none"
    ELSE "parsed"

InitRace ==
    /\ MFS_DATA_DIR = DataDir
    /\ requests = (Lister :> Idle)
    /\ \E named \in SUBSET (1..RaceEntries) :
        dirs = [n \in {EntryName(i) : i \in 1..RaceEntries} |->
                   DirOf(DescOk, DescOk, PlainSettings,
                         IF \E i \in named : EntryName(i) = n
                         THEN << <<"M", "a", "p">> >> ELSE <<>>, 0)]
    /\ files = <<>>
    /\ clock = 0
    /\ session = NoSession
    /\ ui = NoUI
    /\ obj = NoObj
    /\ last = NoOp
    /\ hist = <<>>

\* build_page starts: map_directories = self.find_map_directories().
ListStart ==
    /\ requests[Lister].pc \in {"idle", "done", "raised"}
    /\ \E listing \in ListDirSample(RootNames(MFS_DATA_DIR, dirs, files)) :
        requests' = [requests EXCEPT ![Lister] =
                        [pc |-> "isfile", entries |-> <<>>, ms |-> PlainSettings,
                         map_directories |-> find_map_directories(listing, dirs, TRUE)]]
    /\ last' = [op |-> "find_map_directories"]
    /\ UNCHANGED <<MFS_DATA_DIR, dirs, files, clock, session, ui, obj, hist>>

\* The loop of build_page is over: the entries are filtered and shown.
ListDone ==
    /\ requests[Lister].pc = "isfile"
    /\ requests[Lister].map_directories = <<>>
    /\ requests' = [requests EXCEPT ![Lister].pc = "done"]
    /\ last' = [op |-> "build_page"]
    /\ UNCHANGED <<MFS_DATA_DIR, dirs, files, clock, session, ui, obj, hist>>

\* get_map_entry of the next directory: the existence check of its descriptor files.
CheckDescriptors ==
    /\ requests[Lister].pc = "isfile"
    /\ requests[Lister].map_directories # <<>>
    /\ requests' = [requests EXCEPT ![Lister] =
          IF descriptors_exist(dirs, Head(@.map_directories))
          THEN [@ EXCEPT !.pc = "open"]
          ELSE [@ EXCEPT !.map_directories = Tail(@)]]
    /\ last' = [op |-> "isfile"]
    /\ UNCHANGED <<MFS_DATA_DIR, dirs, files, clock, session, ui, obj, hist>>

\* get_map_entry reads and parses the descriptor files.
ReadDescriptors ==
    /\ requests[Lister].pc = "open"
    /\ \E got \in {load_descriptors(dirs, Head(requests[Lister].map_directories))} :
        requests' = [requests EXCEPT ![Lister] =
            IF got = "parsed"
            THEN [@ EXCEPT !.pc = "MapEntry",
                           !.ms = dirs[Head(requests[Lister].map_directories)].ms]
            ELSE IF got = "none"
            THEN [@ EXCEPT !.pc = "isfile", !.map_directories = Tail(@)]
            ELSE [@ EXCEPT !.pc = "raised"]]
    /\ last' = [op |-> "open"]
    /\ UNCHANGED <<MFS_DATA_DIR, dirs, files, clock, session, ui, obj, hist>>

\* get_map_entry builds the MapEntry, which finds its name in name.txt.
MakeEntry ==
    /\ requests[Lister].pc = "MapEntry"
    /\ \E made \in {MapEntryInit(Head(requests[Lister].map_directories),
                                 requests[Lister].ms, 1, dirs)} :
        /\ dirs' = made.dirs
        /\ requests' = [requests EXCEPT ![Lister] =
              IF made.raised # "none"
              THEN [@ EXCEPT !.pc = "raised"]
              ELSE [@ EXCEPT !.pc = "isfile", !.map_directories = Tail(@),
                             !.entries = Append(@, made.e)]]
    /\ last' = [op |-> "MapEntry"]
    /\ UNCHANGED <<MFS_DATA_DIR, files, clock, session, ui, obj, hist>>

\* Another request deletes an entry directory with its Delete button.
OtherRequestDeletes ==
    /\ requests[Lister].pc \notin {"idle", "done", "raised"}
    /\ \E n \in DOMAIN dirs :
        \E del \in {delete_entry(n, MFS_DATA_DIR, dirs, files)} :
            /\ dirs' = del.dirs
            /\ files' = del.files
            /\ last' = [op |-> "delete", id |-> n, res |-> del.res,
                        compressed |-> del.compressed, files_before |-> files]
    /\ UNCHANGED <<requests, MFS_DATA_DIR, clock, session, ui, obj, hist>>

NextRace ==
    \/ ListStart
    \/ CheckDescriptors
    \/ ReadDescriptors
    \/ MakeEntry
    \/ ListDone
    \/ OtherRequestDeletes

SpecRace == InitRace /\ [][NextRace]_vars

\* C18: when another request deletes entry directories during a listing request, the
\* listing completes without raising and shows the valid entries that are left.
C18_ListingSurvivesDeletion ==
    /\ requests[Lister].pc # "raised"
    /\ requests[Lister].pc = "done" =>
          \A n \in DOMAIN dirs :
              \E k \in 1..Len(requests[Lister].entries) :
                  requests[Lister].entries[k].directory_name = n

----------------------------------------------------------------------------
(* What a listing request writes.                                          *)

\* The step was a listing request: a script run, alone or after the callback of
\* Next or Previous.
ListingRequest == last'.op \in {"run", "next_page", "previous_page"}

\* name.txt of the entry is missing, or nothing is left of it after stripping.
BlankName(d) == d.name_txt = <<>> \/ Trimmed(d.name_txt[1]) = <<>>

\* C19: a listing request creates, rewrites and removes no archive file, no entry
\* directory and no descriptor file; it writes at most name.txt of entries whose
\* name.txt is missing or blank, and leaves a name.txt with a name in it as it is.
C19_ListingWritesOnlyBlankNames ==
    [][ListingRequest =>
          /\ files' = files
          /\ DOMAIN dirs' = DOMAIN dirs
          /\ \A n \in DOMAIN dirs :
                /\ dirs'[n].main = dirs[n].main
                /\ dirs'[n].gen = dirs[n].gen
                /\ dirs'[n].ms = dirs[n].ms
                /\ dirs'[n].ver = dirs[n].ver
                /\ ~BlankName(dirs[n]) => dirs'[n].name_txt = dirs[n].name_txt]_vars

\* After a click on Next the blank name.txt of entry 4 and the missing one of entry 2
\* hold the default name, and the name of entry 1 is as it was.
C19_Witness ==
    /\ last.op = "next_page"
    /\ dirs[EntryName(4)].name_txt = <<DefaultNameText>>
    /\ dirs[EntryName(2)].name_txt = <<DefaultNameText>>
    /\ dirs[EntryName(1)].name_txt = << <<"M", "a", "p">> >>

----------------------------------------------------------------------------
(* Public mode: what a listing shows of roots that differ in the entries   *)
(* the visitor did not ask for.                                            *)

MaxOthers == 6

\* The entry a visitor may know, and its name as the visitor may type it.
KnownEntry == 2

PublicQueries == {<<>>, <<"0", "2", "_", "1", "_", "F", "S">>, <<"m">>}

\* A root with or without the known entry and with a number of other entries.
PublicRoot(known, others) ==
    [n \in {EntryName(i) : i \in (IF known THEN {KnownEntry} ELSE {}) \cup
                                 (KnownEntry + 1)..(KnownEntry + others)} |->
        CatalogDir(CHOOSE i \in 1..(KnownEntry + others) : EntryName(i) = n)]

PublicRoots == {PublicRoot(known, others) : known \in BOOLEAN, others \in 0..MaxOthers}

\* What a script run shows to the visitor: the error of the empty query or the
\* entries of the page, the page count and whether Previous and Next are there.
Exposed(run) ==
    [constructed |-> run.self.constructed,
     raised |-> run.self.raised,
     shown |-> run.self.shown,
     warning |-> run.self.warning,
     total_pages |-> IF run.self.constructed THEN run.session.total_pages ELSE 0,
     nav |-> run.self.nav]

\* The two roots hold the same entries under the names that equal the query but for
\* case.
AgreeOnQuery(a, b, search_input) ==
    /\ {n \in DOMAIN a : EqualIgnoringCase(search_input, n)} =
           {n \in DOMAIN b : EqualIgnoringCase(search_input, n)}
    /\ \A n \in DOMAIN a \cap DOMAIN b : EqualIgnoringCase(search_input, n) => a[n] = b[n]

InitPublic ==
    /\ MFS_DATA_DIR = DataDir
    /\ requests = <<>>
    /\ dirs \in PublicRoots
    /\ files = <<>>
    /\ clock = 0
    /\ session = NoSession
    /\ ui = [NoUI EXCEPT !.public = TRUE]
    /\ obj = NoObj
    /\ last = NoOp
    /\ hist = <<>>

\* A visitor opens the public page with a query, in a new session; beside it the
\* same request over another root that agrees on the entries the query names.
PublicListing ==
    \E search_input \in PublicQueries :
    \E other \in {o \in PublicRoots : AgreeOnQuery(dirs, o, search_input)} :
    \E listing \in ListDirSample(RootNames(MFS_DATA_DIR, dirs, files)) :
    \E other_listing \in ListDirSample(RootNames(MFS_DATA_DIR, other, files)) :
    \E run \in {MyMapsUI(TRUE, DefaultFilter, search_input, listing, dirs, NoSession)} :
    \E other_run \in {MyMapsUI(TRUE, DefaultFilter, search_input, other_listing, other,
                               NoSession)} :
        /\ ui' = run.self
        /\ dirs' = run.dirs
        /\ session' = run.session
        /\ last' = [op |-> "public_listing", search_input |-> search_input,
                    exposed |-> Exposed(run), other_exposed |-> Exposed(other_run),
                    others |-> Cardinality(DOMAIN other)]
        /\ UNCHANGED <<requests, MFS_DATA_DIR, files, clock, obj, hist>>

NextPublic == PublicListing

SpecPublic == InitPublic /\ [][NextPublic]_vars

\* C21: in public mode two roots that agree on the entries whose name equals the
\* query ignoring case show the same to the visitor: the entries, the page count and
\* whether Previous and Next are rendered; with an empty query nothing is shown.
C21_PublicListingHidesOthers ==
    last.op = "public_listing" =>
        /\ last.exposed = last.other_exposed
        /\ last.search_input = <<>> => (~last.exposed.constructed /\ last.exposed.shown = <<>>)

----------------------------------------------------------------------------
(* MapEntry: the badges of an entry.                                       *)

\* str.upper on one character.
UpperChar(c) ==
    CASE c = "a" -> "A"
      [] c = "b" -> "B"
      [] c = "f" -> "F"
      [] c = "s" -> "S"
      [] OTHER -> c

\* str.upper
Upper(s) == [i \in 1..Len(s) |-> UpperChar(s[i])]

\* One badge of the markdown text: its colour and its label.
Badge(colour, label) == [badge |-> colour, label |-> label]

CustomOsmBadge == Badge("violet", <<"C", "u", "s", "t", "o", "m", " ", "O", "S", "M">>)

ApiBadge == Badge("orange", <<"A", "P", "I">>)

IncompleteBadge == Badge("red", <<"I", "n", "c", "o", "m", "p", "l", "e", "t", "e">>)

CompleteBadge == Badge("green", <<"C", "o", "m", "p", "l", "e", "t", "e">>)

ErrorBadge == Badge("red", <<"E", "r", "r", "o", "r">>)

\* Badges with the Error badge put before the Complete or Incomplete badge.
badges_error_first(e) ==
    <<Badge("blue", Upper(e.main_settings.game)), Badge("blue", e.main_settings.version)>>
    \o (IF e.main_settings.custom_osm THEN <<CustomOsmBadge>> ELSE <<>>)
    \o (IF e.main_settings.api_request THEN <<ApiBadge>> ELSE <<>>)
    \o (IF e.main_settings.error THEN <<ErrorBadge>> ELSE <<>>)
    \o (IF ~e.main_settings.completed THEN <<IncompleteBadge>> ELSE <<CompleteBadge>>)

\* MapEntry._badges: the badges in the order in which " ".join puts them into the
\* text.
badges(e) ==
    <<Badge("blue", Upper(e.main_settings.game)), Badge("blue", e.main_settings.version)>>
    \o (IF e.main_settings.custom_osm THEN <<CustomOsmBadge>> ELSE <<>>)
    \o (IF e.main_settings.api_request THEN <<ApiBadge>> ELSE <<>>)
    \o (IF ~e.main_settings.completed THEN <<IncompleteBadge>> ELSE <<CompleteBadge>>)
    \o (IF e.main_settings.error THEN <<ErrorBadge>> ELSE <<>>)

\* The path of the custom_osm.osm of an entry directory.
custom_osm_path(root, directory_name) ==
    PathJoin(PathJoin(root, directory_name),
             <<"c", "u", "s", "t", "o", "m", "_", "o", "s", "m", ".", "o", "s", "m">>)

NoPath == <<>>

\* MapEntry.custom_osm (property): the path when the flag is set and the file is
\* there, None otherwise.
custom_osm(e, root, fl) ==
    IF e.main_settings.custom_osm /\ IsFile(fl, custom_osm_path(root, e.directory_name))
    THEN custom_osm_path(root, e.directory_name)
    ELSE NoPath

BadgeGames == {<<"f", "s", "2", "5">>, <<"F", "S", "2", "2">>}

BadgeDir == <<"1", "_", "2", "_", "f", "s">>

InitBadges ==
    /\ MFS_DATA_DIR = DataDir
    /\ requests = <<>>
    /\ dirs = (BadgeDir :> PlainDir)
    /\ \E marker \in BOOLEAN :
        files = IF marker THEN (custom_osm_path(DataDir, BadgeDir) :> "osm") ELSE <<>>
    /\ clock = 0
    /\ session = NoSession
    /\ ui = NoUI
    /\ \E c \in BOOLEAN, er \in BOOLEAN, a \in BOOLEAN, o \in BOOLEAN, g \in BadgeGames :
        obj = MapEntryOf(BadgeDir,
                         MainSettingsOf(c, er, a, o) @@
                             [game |-> g, version |-> <<"1", ".", "0">>],
                         <<"M", "a", "p">>, 1)
    /\ last = NoOp
    /\ hist = <<>>

\* get_ui renders the badges of the entry.
RenderBadges ==
    /\ last' = [op |-> "_badges", ret |-> badges(obj)]
    /\ UNCHANGED <<requests, MFS_DATA_DIR, dirs, files, clock, session, ui, obj, hist>>

\* to_json reads the custom_osm property of the entry.
ReadCustomOsm ==
    /\ last' = [op |-> "custom_osm", ret |-> custom_osm(obj, MFS_DATA_DIR, files)]
    /\ UNCHANGED <<requests, MFS_DATA_DIR, dirs, files, clock, session, ui, obj, hist>>

NextBadges == RenderBadges \/ ReadCustomOsm

SpecBadges == InitBadges /\ [][NextBadges]_vars

\* The badges of a text, as a set.
BadgesIn(text) == {text[k] : k \in 1..Len(text)}

\* C22: the badge text holds the custom-source badge iff the custom_osm flag of the
\* descriptor is set and custom_osm.osm exists in the entry directory.
C22_CustomBadgeNeedsFile ==
    last.op = "_badges" =>
        (CustomOsmBadge \in BadgesIn(last.ret) <=>
            /\ obj.main_settings.custom_osm
            /\ custom_osm_path(MFS_DATA_DIR, obj.directory_name) \in DOMAIN files)

\* Whether the flags of the entry call for the badge.
BadgeApplies(e, b) ==
    \/ b = CustomOsmBadge /\ e.main_settings.custom_osm
    \/ b = ApiBadge /\ e.main_settings.api_request
    \/ b = CompleteBadge /\ e.main_settings.completed
    \/ b = IncompleteBadge /\ ~e.main_settings.completed
    \/ b = ErrorBadge /\ e.main_settings.error

\* The badges after game and version, in the order of the text.
BadgeOrder == <<CustomOsmBadge, ApiBadge, CompleteBadge, IncompleteBadge, ErrorBadge>>

\* C23: for every combination of the custom_osm, api_request, completed and error
\* flags the badge text lists, in this order, game (in upper case) and version, the
\* custom-source badge if the flag is set, the API badge if set, one of Complete and
\* Incomplete (Complete iff completed), and the Error badge if error is set.
C23_BadgesInOrder ==
    last.op = "_badges" =>
        LET Called(b) == BadgeApplies(obj, b)
        IN  /\ Len(last.ret) >= 3
            /\ last.ret[1].badge = "blue"
            /\ EqualIgnoringCase(last.ret[1].label, obj.main_settings.game)
            /\ \A k \in 1..Len(last.ret[1].label) :
                  last.ret[1].label[k] \notin {"a", "b", "f", "s"}
            /\ last.ret[2] = Badge("blue", obj.main_settings.version)
            /\ SubSeq(last.ret, 3, Len(last.ret)) = SelectSeq(BadgeOrder, Called)
            /\ Cardinality({CompleteBadge, IncompleteBadge} \cap BadgesIn(last.ret)) = 1

\* The badges of an incomplete entry with all other flags set.
C23_Witness ==
    /\ last.op = "_badges"
    /\ Len(last.ret) = 6
    /\ last.ret[3] = CustomOsmBadge
    /\ last.ret[4] = ApiBadge
    /\ last.ret[5] = IncompleteBadge
    /\ last.ret[6] = ErrorBadge

----------------------------------------------------------------------------
(* Listing requests under two enumeration orders of the root directory.    *)

OrderEntries == 7

\* The entry whose main_settings.json may be damaged.
OrderBad == 3

\* A root of k entries, the entry OrderBad with main_settings.json in state main.
OrderRoot(k, main) ==
    [n \in {EntryName(i) : i \in 1..k} |->
        IF n = EntryName(OrderBad)
        THEN DirOf(main, DescOk, PlainSettings, <<>>, 0)
        ELSE EntryDir(CHOOSE i \in 1..k : EntryName(i) = n)]

InitOrder ==
    /\ MFS_DATA_DIR = DataDir
    /\ requests = <<>>
    /\ \E k \in 0..OrderEntries, main \in {DescOk, DescMissing, DescMalformed} :
          dirs = OrderRoot(k, main)
    /\ files = <<>>
    /\ clock = 0
    /\ session = NoSession
    /\ \E public \in BOOLEAN : ui = [NoUI EXCEPT !.public = public]
    /\ obj = NoObj
    /\ last = NoOp
    /\ hist = <<>>

\* A script run with the widgets holding a filter and a query; beside it the same
\* request with os.listdir enumerating the root in another order.
ListTwice ==
    \E f \in FilterChoices, q \in SearchChoices :
    \E listing \in ListDirSample(RootNames(MFS_DATA_DIR, dirs, files)) :
    \E other_listing \in ListDirSample(RootNames(MFS_DATA_DIR, dirs, files)) :
    \E run \in {MyMapsUI(ui.public, f, q, listing, dirs, session)} :
    \E other_run \in {MyMapsUI(ui.public, f, q, other_listing, dirs, session)} :
        /\ ui' = run.self
        /\ dirs' = run.dirs
        /\ session' = run.session
        /\ last' = [op |-> "run", listing |-> listing, other_listing |-> other_listing,
                    exposed |-> Exposed(run), other_exposed |-> Exposed(other_run)]
        /\ UNCHANGED <<requests, MFS_DATA_DIR, files, clock, obj, hist>>

\* A click on Next, and beside it the same click with the other enumeration order.
NextTwice ==
    /\ NextEnabled(ui, session)
    /\ \E listing \in ListDirSample(RootNames(MFS_DATA_DIR, dirs, files)) :
       \E other_listing \in ListDirSample(RootNames(MFS_DATA_DIR, dirs, files)) :
       \E cb \in {next_page(ui, listing, dirs, session)} :
       \E other_cb \in {next_page(ui, other_listing, dirs, session)} :
       \E run \in {MyMapsUI(ui.public, ui.filter, ui.search_input, listing, cb.dirs,
                            cb.session)} :
       \E other_run \in {MyMapsUI(ui.public, ui.filter, ui.search_input, other_listing,
                                  other_cb.dirs, other_cb.session)} :
           /\ ui' = run.self
           /\ dirs' = run.dirs
           /\ session' = run.session
           /\ last' = [op |-> "next_page", listing |-> listing,
                       other_listing |-> other_listing,
                       exposed |-> Exposed(run), other_exposed |-> Exposed(other_run)]
    /\ UNCHANGED <<requests, MFS_DATA_DIR, files, clock, obj, hist>>

NextOrder == ListTwice \/ NextTwice

SpecOrder == InitOrder /\ [][NextOrder]_vars

\* C24: two listing requests over the same file system, filter, query, mode and
\* current page show the same sequence of entries and the same page count, whatever
\* the order os.listdir enumerates the root in.
C24_ListingIgnoresEnumerationOrder ==
    last.op \in {"run", "next_page"} =>
        /\ last.exposed.shown = last.other_exposed.shown
        /\ last.exposed.total_pages = last.other_exposed.total_pages

\* The second page of a root, listed under two different enumeration orders.
C24_Witness ==
    /\ last.op = "next_page"
    /\ last.listing # last.other_listing
    /\ session.current_page = 2
    /\ Len(last.exposed.shown) >= 2
    /\ last.exposed.total_pages = 2

----------------------------------------------------------------------------
(* Navigation over a fixed root: the user browses, then keeps the filter   *)
(* and the query and only clicks Next from page 1 on, or only Previous.    *)

NavEntries == 11

\* The sizes of the roots: empty, one page, one entry more, three pages.
NavSizes == {0, PAGE_SIZE, PAGE_SIZE + 1, NavEntries}

\* The clicks on Next the model follows the user for.
MaxClicks == 3

InitNav ==
    /\ MFS_DATA_DIR = DataDir
    /\ requests = <<>>
    /\ \E k \in NavSizes :
          dirs = [n \in {EntryName(i) : i \in 1..k} |->
                     EntryDir(CHOOSE i \in 1..k : EntryName(i) = n)]
    /\ files = <<>>
    /\ clock = 0
    /\ session = NoSession
    /\ \E public \in BOOLEAN : ui = [NoUI EXCEPT !.public = public]
    /\ obj = NoObj
    /\ last = NoOp
    /\ hist = <<>>

\* What the user is doing: browsing, clicking Next only, or clicking Previous only.
Phase == IF hist = <<>> THEN "browse" ELSE hist[1]

\* The clicks on Next since the user started from page 1.
ForwardClicks == Len(hist) - 1

\* Script runs and clicks while the user browses.
Browse ==
    /\ hist = <<>>
    /\ \/ Open
       \/ ChangeWidgets
       \/ ClickNext
       \/ ClickPrevious

\* On page 1 the user leaves the filter and the query as they are and starts to
\* click Next.
HoldForward ==
    /\ hist = <<>>
    /\ PageBuilt
    /\ session.current_page = 1
    /\ hist' = <<"forward">>
    /\ UNCHANGED <<requests, MFS_DATA_DIR, dirs, files, clock, session, ui, obj, last>>

\* One more click on Next: the callback of the rendered page, then the script run.
ForwardClick ==
    /\ Phase = "forward"
    /\ ForwardClicks < MaxClicks
    /\ NextEnabled(ui, session)
    /\ \E listing \in ListDirSample(RootNames(MFS_DATA_DIR, dirs, files)) :
        \E cb \in {next_page(ui, listing, dirs, session)} :
        \E run \in {MyMapsUI(ui.public, ui.filter, ui.search_input, listing, cb.dirs,
                             cb.session)} :
            /\ ui' = run.self
            /\ dirs' = run.dirs
            /\ session' = run.session
            /\ last' = [op |-> "next_page", page_before |-> session.current_page,
                        callback |-> cb.self]
    /\ hist' = hist \o <<"next_page">>
    /\ UNCHANGED <<requests, MFS_DATA_DIR, files, clock, obj>>

\* On any page the user leaves the filter and the query as they are and from now on
\* clicks Previous only.
HoldBack ==
    /\ Phase \in {"browse", "forward"}
    /\ PageBuilt
    /\ hist' = <<"back">>
    /\ UNCHANGED <<requests, MFS_DATA_DIR, dirs, files, clock, session, ui, obj, last>>

\* The clicks on Previous since the user started to click Previous only.
BackClicks == Len(hist) - 1

\* One more click on Previous: the callback of the rendered page, then the script run.
BackClick ==
    /\ Phase = "back"
    /\ BackClicks < MaxClicks
    /\ PreviousEnabled(ui, session)
    /\ \E listing \in ListDirSample(RootNames(MFS_DATA_DIR, dirs, files)) :
        \E cb \in {previous_page(ui, listing, dirs, session)} :
        \E run \in {MyMapsUI(ui.public, ui.filter, ui.search_input, listing, cb.dirs,
                             cb.session)} :
            /\ ui' = run.self
            /\ dirs' = run.dirs
            /\ session' = run.session
            /\ last' = [op |-> "previous_page", page_before |-> session.current_page,
                        callback |-> cb.self]
    /\ hist' = hist \o <<"previous_page">>
    /\ UNCHANGED <<requests, MFS_DATA_DIR, files, clock, obj>>

NextNav == Browse \/ HoldForward \/ ForwardClick \/ HoldBack \/ BackClick

\* A click on Previous as the user makes it: the button is rendered and enabled, and
\* the click is one more of the user's clicks. In SpecNav these are the steps of
\* BackClick.
PreviousClicked ==
    /\ Phase = "back"
    /\ BackClicks < MaxClicks
    /\ PreviousEnabled(ui, session)
    /\ hist' = hist \o <<"previous_page">>

\* The user who clicks Previous only goes on clicking while the button is enabled.
SpecNav == InitNav /\ [][NextNav]_vars /\ WF_hist(PreviousClicked)

\* The user clicks Previous only and page 1 is the current page.
BackOnFirstPage == Phase = "back" /\ session.current_page = 1

\* The page with number p of the filtered entries, PAGE_SIZE entries to a page.
PageOf(filtered_map_entries, p) ==
    [i \in 1..(IF PAGE_SIZE * p <= Len(filtered_map_entries) THEN PAGE_SIZE
               ELSE Len(filtered_map_entries) - PAGE_SIZE * (p - 1)) |->
        filtered_map_entries[PAGE_SIZE * (p - 1) + i]]

\* After k clicks on Next from page 1, k less than the page count of the filtered
\* set, page k + 1 is shown, and Next can be clicked while pages are left.
ForwardShowsNextPage ==
    Phase = "forward" =>
        /\ ForwardClicks < session.total_pages =>
              /\ session.current_page = ForwardClicks + 1
              /\ ui.shown # <<>>
              /\ ui.shown = PageOf(ui.filtered, ForwardClicks + 1)
        /\ ForwardClicks + 1 < session.total_pages => NextEnabled(ui, session)

\* C25: with the file system, the filter and the query held fixed, k clicks on Next
\* from page 1 show page k + 1 for every k less than the page count of the filtered
\* set, and from any current page repeated clicks on Previous lead to page 1, which
\* further clicks leave unchanged.
C25_EveryPageReachable ==
    /\ []ForwardShowsNextPage
    /\ (Phase = "back") ~> BackOnFirstPage
    /\ [][BackOnFirstPage => session'.current_page = 1]_vars

\* Two clicks on Next from page 1 show the third page of three.
C25_Witness ==
    /\ Phase = "forward"
    /\ ForwardClicks = 2
    /\ session.total_pages = 3
    /\ session.current_page = 3
    /\ ui.shown # <<>>

====
